---- MODULE Spec2Model ----
(***************************************************************************)
(* Actor behaviors of packages/core/src/behavior.ts: the Callback,         *)
(* Promise, Observable, Machine and Service behaviors and the dispatch     *)
(* factory createBehaviorFrom.  One behavior instance is modelled per      *)
(* run; the environment (supervisor calls, settlement of deferred values,  *)
(* source emissions, nested interpreter steps) is nondeterministic.        *)
(***************************************************************************)
EXTENDS Integers, Sequences, FiniteSets, TLC

\* ---------------------------------------------------------------- bounds
MaxStops == 2        \* receiveSignal(stop) calls per run
NumObservers == 2    \* observers that may subscribe to a Promise behavior
NumReceivers == 2    \* receivers the wrapped callback may register
MaxReceives == 1     \* receive calls per run
MaxSenderCalls == 1  \* calls of the sender handed to the wrapped callback
MaxEmit == 2         \* values the observable source emits before it ends
MaxSteps == 2        \* transitions of the nested machine before its final state

Values == {1, 2}         \* payloads of resolved values and failure reasons
Events == {1, 0 - 2}     \* event objects handed to receive (encoding below)
ObserverIds == 1..NumObservers
ReceiverIds == 1..NumReceivers

VARIABLES
    ctor,          \* which constructor built the instance ("none" before)
    entity,        \* the spawnable handed to createBehaviorFrom
    variant,       \* "none","callback","promise","observable","machine","service","unsupported"
    options,       \* createMachineBehavior's options: [sync |-> BOOLEAN]
    canceled,      \* let canceled (Callback, Promise)
    receivers,     \* Callback: Set of receivers, in insertion order
    dispose,       \* Callback: what the wrapped function returned
    observers,     \* Promise: Set of observers, in insertion order
    subscription,  \* Observable / Machine: "undefined", "open" or "closed"
    service,       \* Machine: let service; Service: the wrapped interpreter
    deferred,      \* the deferred value (Promise: wrapped; Callback: returned)
    source,        \* Observable: the wrapped source, as seen by the forwarding
                   \* subscription and (direct) by a subscription made through subscribe
    machine,       \* Machine: the wrapped definition (transitions to its final state)
    started,       \* receiveSignal(start) was processed
    calls,         \* how many stop, receive and sender calls were made, how many
                   \* observers unsubscribed from inside their callback, and which
                   \* observers subscribed late (Promise) or early (Machine)
    stopMark,      \* what held when the first receiveSignal(stop) was processed
    trace,         \* outbound effects in order: parent sends, observer callbacks,
                   \* disposer calls, failures raised into the caller
    inbound        \* inward deliveries in order: receive calls and what they reached

vars == <<ctor, entity, variant, options, canceled, receivers, dispose, observers,
          subscription, service, deferred, source, machine, started, calls,
          stopMark, trace, inbound>>

cbVars == <<receivers, dispose>>
maVars == <<service, machine>>
ctorVars == <<ctor, entity, variant, options>>

\* ------------------------------------------------------------ log entries
Entry(to, k, id, d) == [to |-> to, k |-> k, id |-> id, d |-> d]

RECURSIVE SelectEntries(_, _, _)
SelectEntries(s, to, k) ==
    IF s = <<>> THEN <<>>
    ELSE LET rest == SelectEntries(Tail(s), to, k)
         IN IF Head(s).to = to /\ (k = "*" \/ Head(s).k = k)
            THEN <<Head(s)>> \o rest ELSE rest

Count(to, k) == Len(SelectEntries(trace, to, k))
ToParent(s) == SelectEntries(s, "parent", "*")
Range(s) == {s[i] : i \in 1..Len(s)}
Positions(s, e) == {i \in 1..Len(s) : s[i] = e}
Suffix(s, n) == SubSeq(s, n + 1, Len(s))

\* parent?.send(toSCXMLEvent(e, { origin: actorContext.self }))
Send(k, d) == Entry("parent", k, 0, d)
\* A call that raised a failure into its caller instead of returning the behavior.
Throw == Entry("caller", "throw", 0, 0)

\* --------------------------------------------------------------- collaborators
\* Event objects are integers: n > 0 is the plain event n, -n is the SCXML
\* envelope whose data is the plain event n.
isSCXMLEvent(event) == event < 0
eventData(event) == 0 - event
toSCXMLEvent(event) == IF isSCXMLEvent(event) THEN event ELSE 0 - event

\* A spawnable is described by what the four shape tests answer on it.
Entity == [then : BOOLEAN, subscribe : BOOLEAN, node : BOOLEAN, fn : BOOLEAN]
isPromiseLike(x) == x.then
isObservable(x) == x.subscribe
isMachineNode(x) == x.node
isFunction(x) == x.fn

Undefined == [then |-> FALSE, subscribe |-> FALSE, node |-> FALSE, fn |-> FALSE]

Pending == [state |-> "pending", d |-> 0, attached |-> FALSE, ran |-> FALSE]
NoDirect == [status |-> "none", id |-> 0, pos |-> 0, ended |-> FALSE]
NoSource == [len |-> 0, end |-> "never", pos |-> 0, ended |-> FALSE, direct |-> NoDirect]
NoService == [status |-> "undefined", state |-> 0, listeners |-> <<>>, onDone |-> FALSE]
NoStop == [at |-> 0 - 1, started |-> FALSE, settled |-> FALSE]

Init ==
    /\ ctor = "none"
    /\ entity = Undefined
    /\ variant = "none"
    /\ options = [sync |-> FALSE]
    /\ canceled = FALSE
    /\ receivers = <<>>
    /\ dispose = Undefined
    /\ observers = <<>>
    /\ subscription = "undefined"
    /\ service = NoService
    /\ deferred = Pending
    /\ source = NoSource
    /\ machine = 0
    /\ started = FALSE
    /\ calls = [stop |-> 0, receive |-> 0, sender |-> 0, inpass |-> 0,
                late |-> {}, early |-> {}]
    /\ stopMark = NoStop
    /\ trace = <<>>
    /\ inbound = <<>>

\* Bookkeeping of one receiveSignal(stop): the call is counted, and the first one
\* marks how much had been put out and whether start and settlement came before.
NoteStop ==
    /\ calls.stop < MaxStops
    /\ calls' = [calls EXCEPT !.stop = @ + 1]
    /\ stopMark' = IF stopMark.at < 0
                   THEN [at |-> Len(trace), started |-> started,
                         settled |-> deferred.state # "pending"]
                   ELSE stopMark

\* ------------------------------------------------------------ createBehaviorFrom
createBehaviorFrom_ObservableFirst(e) ==
    IF isObservable(e) THEN "observable"
    ELSE IF isPromiseLike(e) THEN "promise"
    ELSE IF isMachineNode(e) THEN "machine"
    ELSE IF isFunction(e) THEN "callback"
    ELSE "unsupported"

createBehaviorFrom(e) ==
    IF isPromiseLike(e) THEN "promise"
    ELSE IF isObservable(e) THEN "observable"
    ELSE IF isMachineNode(e) THEN "machine"
    ELSE IF isFunction(e) THEN "callback"
    ELSE "unsupported"

\* The wrapped thing a fresh instance of variant v closes over.
Wrap(v) ==
    /\ IF v = "observable"
       THEN \E n \in 0..MaxEmit, e \in {"complete", "error", "never"} :
                source' = [NoSource EXCEPT !.len = n, !.end = e]
       ELSE source' = source
    /\ IF v = "machine"
       THEN \E n \in 0..MaxSteps : machine' = n
       ELSE machine' = machine
    /\ IF v = "service"
       THEN service' = [NoService EXCEPT !.status = "running"]
       ELSE service' = service

CreateBehaviorFrom ==
    /\ ctor = "none"
    /\ \E e \in Entity :
          /\ entity' = e
          /\ variant' = createBehaviorFrom(e)
          /\ trace' = IF createBehaviorFrom(e) = "unsupported" THEN <<Throw>> ELSE trace
          /\ Wrap(createBehaviorFrom(e))
    /\ ctor' = "createBehaviorFrom"
    /\ UNCHANGED <<options, canceled, cbVars, observers, subscription, deferred,
                   started, calls, stopMark, inbound>>

CreateMachineBehavior ==
    /\ ctor = "none"
    /\ ctor' = "createMachineBehavior"
    /\ variant' = "machine"
    /\ \E s \in BOOLEAN : options' = [sync |-> s]
    /\ Wrap("machine")
    /\ UNCHANGED <<entity, canceled, cbVars, observers, subscription, deferred,
                   started, calls, stopMark, trace, inbound>>

CreateServiceBehavior ==
    /\ ctor = "none"
    /\ ctor' = "createServiceBehavior"
    /\ variant' = "service"
    /\ Wrap("service")
    /\ UNCHANGED <<entity, options, canceled, cbVars, observers, subscription, deferred,
                   started, calls, stopMark, trace, inbound>>

\* ------------------------------------------------------------ Promise behavior
\* observers.forEach(f) of a JS Set: the entries are visited by index in
\* insertion order; an entry deleted during the pass leaves a hole (0) that is
\* skipped.  f notifies the observer (cb, then complete); the observers of
\* unsub call their own unsubscribe handle from inside that callback.
RECURSIVE forEachObserver_SkipAfterDelete(_, _, _, _, _)
forEachObserver_SkipAfterDelete(entries, i, cb, d, unsub) ==
    IF i > Len(entries) THEN [entries |-> entries, out |-> <<>>]
    ELSE LET o == entries[i]
             after == IF o \in unsub
                      THEN SubSeq(entries, 1, i - 1) \o SubSeq(entries, i + 1, Len(entries))
                      ELSE entries
             rest == forEachObserver_SkipAfterDelete(after, i + 1, cb, d, unsub)
         IN [entries |-> rest.entries,
             out |-> <<Entry("observer", cb, o, d), Entry("observer", "complete", o, 0)>>
                       \o rest.out]

RECURSIVE forEachObserver(_, _, _, _, _)
forEachObserver(entries, i, cb, d, unsub) ==
    IF i > Len(entries) THEN [entries |-> entries, out |-> <<>>]
    ELSE IF entries[i] = 0 THEN forEachObserver(entries, i + 1, cb, d, unsub)
    ELSE LET o == entries[i]
             after == IF o \in unsub THEN [entries EXCEPT ![i] = 0] ELSE entries
             rest == forEachObserver(after, i + 1, cb, d, unsub)
         IN [entries |-> rest.entries,
             out |-> <<Entry("observer", cb, o, d), Entry("observer", "complete", o, 0)>>
                       \o rest.out]

Compact(entries) == SelectSeq(entries, LAMBDA o : o # 0)

PromiseStart ==
    /\ variant = "promise"
    /\ ~started
    /\ started' = TRUE
    /\ deferred' = [deferred EXCEPT !.attached = TRUE]
    /\ UNCHANGED <<ctorVars, canceled, cbVars, observers, subscription, source, maVars,
                   calls, stopMark, trace, inbound>>

PromiseStop ==
    /\ variant = "promise"
    /\ NoteStop
    /\ canceled' = TRUE
    /\ observers' = <<>>
    /\ UNCHANGED <<ctorVars, cbVars, subscription, deferred, source, maVars, started,
                   trace, inbound>>

\* receive: () => behavior
PromiseReceive ==
    /\ variant = "promise"
    /\ UNCHANGED vars

\* An observer that has been told nothing and subscribes once the value has
\* settled or a stop was processed is noted as a late subscriber.
NoteLate(o) ==
    calls' = [calls EXCEPT !.late =
                 IF /\ deferred.state # "pending" \/ calls.stop > 0
                    /\ SelectSeq(trace, LAMBDA e : e.to = "observer" /\ e.id = o) = <<>>
                 THEN @ \cup {o} ELSE @]

\* subscribe: (observer) => { observers.add(observer); return { unsubscribe } }
PromiseSubscribe_Replay ==
    /\ variant = "promise"
    /\ \E o \in ObserverIds :
          /\ o \notin Range(observers)
          /\ observers' = Append(observers, o)
          /\ NoteLate(o)
          /\ trace' = IF deferred.ran /\ ~canceled
                      THEN trace \o <<Entry("observer", "next", o, deferred.d),
                                      Entry("observer", "complete", o, 0)>>
                      ELSE trace
    /\ UNCHANGED <<ctorVars, canceled, cbVars, subscription, deferred, source, maVars,
                   started, stopMark, inbound>>

PromiseSubscribe ==
    /\ variant = "promise"
    /\ \E o \in ObserverIds :
          /\ o \notin Range(observers)
          /\ observers' = Append(observers, o)
          /\ NoteLate(o)
    /\ UNCHANGED <<ctorVars, canceled, cbVars, subscription, deferred, source, maVars,
                   started, stopMark, trace, inbound>>

\* The handle subscribe returned: observers.delete(observer)
PromiseUnsubscribe ==
    /\ variant = "promise"
    /\ \E o \in Range(observers) :
          observers' = SelectSeq(observers, LAMBDA x : x # o)
    /\ UNCHANGED <<ctorVars, canceled, cbVars, subscription, deferred, source, maVars,
                   started, calls, stopMark, trace, inbound>>

\* The wrapped value settles (a step of the environment, before or after start).
PromiseSettle ==
    /\ variant = "promise"
    /\ deferred.state = "pending"
    /\ \E k \in {"resolved", "rejected"}, v \in Values :
          deferred' = [deferred EXCEPT !.state = k, !.d = v]
    /\ UNCHANGED <<ctorVars, canceled, cbVars, observers, subscription, source, maVars,
                   started, calls, stopMark, trace, inbound>>

\* (response) => { if (!canceled) { parent.send(done); observers.forEach(next, complete) } }
onFulfilled_Unguarded(response, unsub) ==
    LET pass == forEachObserver(observers, 1, "next", response, unsub)
    IN /\ trace' = trace \o <<Send("done", response)>> \o pass.out
       /\ observers' = Compact(pass.entries)

onFulfilled_NoComplete(response, unsub) ==
    IF ~canceled
    THEN LET pass == forEachObserver(observers, 1, "next", response, unsub)
         IN /\ trace' = trace \o <<Send("done", response)>>
                              \o SelectSeq(pass.out, LAMBDA e : e.k # "complete")
            /\ observers' = Compact(pass.entries)
    ELSE UNCHANGED <<trace, observers>>

onFulfilled(response, unsub) ==
    IF ~canceled
    THEN LET pass == forEachObserver(observers, 1, "next", response, unsub)
         IN /\ trace' = trace \o <<Send("done", response)>> \o pass.out
            /\ observers' = Compact(pass.entries)
    ELSE UNCHANGED <<trace, observers>>

\* (errorData) => { if (!canceled) { parent.send(error); observers.forEach(error, complete) } }
onRejected_NotifyFirst(errorData, unsub) ==
    IF ~canceled
    THEN LET pass == forEachObserver(observers, 1, "error", errorData, unsub)
         IN /\ trace' = trace \o pass.out \o <<Send("error", errorData)>>
            /\ observers' = Compact(pass.entries)
    ELSE UNCHANGED <<trace, observers>>

onRejected(errorData, unsub) ==
    IF ~canceled
    THEN LET pass == forEachObserver(observers, 1, "error", errorData, unsub)
         IN /\ trace' = trace \o <<Send("error", errorData)>> \o pass.out
            /\ observers' = Compact(pass.entries)
    ELSE UNCHANGED <<trace, observers>>

\* The continuation attached by start runs, once, after the value has settled.
PromiseContinuation ==
    /\ variant = "promise"
    /\ deferred.attached /\ deferred.state # "pending" /\ ~deferred.ran
    /\ deferred' = [deferred EXCEPT !.ran = TRUE]
    /\ \E unsub \in SUBSET Range(observers) :
          /\ IF deferred.state = "resolved"
             THEN onFulfilled(deferred.d, unsub)
             ELSE onRejected(deferred.d, unsub)
          /\ calls' = [calls EXCEPT !.inpass = IF canceled THEN @ ELSE Cardinality(unsub)]
    /\ UNCHANGED <<ctorVars, canceled, cbVars, subscription, source, maVars, started,
                   stopMark, inbound>>

\* ------------------------------------------------------------ Callback behavior
\* What the wrapped function may return: nothing, a disposer, a deferred value,
\* or a callable that is also thenable.
Returned == {x \in Entity : ~x.subscribe /\ ~x.node}

\* const plainEvent = isSCXMLEvent(event) ? event.data : event
plainEvent_NoUnwrap(event) == event

plainEvent(event) == IF isSCXMLEvent(event) THEN eventData(event) ELSE event

\* receivers.forEach((receiver) => receiver(plainEvent))
RECURSIVE forEachReceiver(_, _)
forEachReceiver(rs, e) ==
    IF rs = <<>> THEN <<>>
    ELSE <<Entry("receiver", "event", Head(rs), e)>> \o forEachReceiver(Tail(rs), e)

CallbackReceive ==
    /\ variant = "callback"
    /\ calls.receive < MaxReceives
    /\ calls' = [calls EXCEPT !.receive = @ + 1]
    /\ \E event \in Events :
          inbound' = inbound \o <<Entry("self", "receive", 0, event)>>
                             \o forEachReceiver(receivers, plainEvent(event))
    /\ UNCHANGED <<ctorVars, canceled, cbVars, observers, subscription, deferred, source,
                   maVars, started, stopMark, trace>>

\* dispose = callback(sender, registrar); if (isPromiseLike(dispose)) dispose.then(...)
CallbackStart ==
    /\ variant = "callback"
    /\ ~started
    /\ started' = TRUE
    /\ \E ret \in Returned :
          /\ dispose' = ret
          /\ deferred' = [deferred EXCEPT !.attached = isPromiseLike(ret)]
    /\ UNCHANGED <<ctorVars, canceled, receivers, observers, subscription, source, maVars,
                   calls, stopMark, trace, inbound>>

\* (e) => { if (canceled) return; parent.send(toSCXMLEvent(e, ...)) }
CallbackSender_Unguarded ==
    /\ variant = "callback"
    /\ started
    /\ calls.sender < MaxSenderCalls
    /\ calls' = [calls EXCEPT !.sender = @ + 1]
    /\ \E v \in Values : trace' = Append(trace, Send("event", v))
    /\ UNCHANGED <<ctorVars, canceled, cbVars, observers, subscription, deferred, source,
                   maVars, started, stopMark, inbound>>

CallbackSender ==
    /\ variant = "callback"
    /\ started
    /\ calls.sender < MaxSenderCalls
    /\ calls' = [calls EXCEPT !.sender = @ + 1]
    /\ \E v \in Values :
          trace' = IF canceled THEN trace ELSE Append(trace, Send("event", v))
    /\ UNCHANGED <<ctorVars, canceled, cbVars, observers, subscription, deferred, source,
                   maVars, started, stopMark, inbound>>

\* (newListener) => { receivers.add(newListener) }
CallbackRegister_Replay ==
    /\ variant = "callback"
    /\ started
    /\ \E r \in ReceiverIds :
          /\ r \notin Range(receivers)
          /\ receivers' = Append(receivers, r)
          /\ inbound' = inbound \o
                [i \in 1..Len(SelectEntries(inbound, "self", "receive")) |->
                    Entry("receiver", "event", r,
                          plainEvent(SelectEntries(inbound, "self", "receive")[i].d))]
    /\ UNCHANGED <<ctorVars, canceled, dispose, observers, subscription, deferred, source,
                   maVars, started, calls, stopMark, trace>>

CallbackRegister ==
    /\ variant = "callback"
    /\ started
    /\ \E r \in ReceiverIds :
          /\ r \notin Range(receivers)
          /\ receivers' = Append(receivers, r)
    /\ UNCHANGED <<ctorVars, canceled, dispose, observers, subscription, deferred, source,
                   maVars, started, calls, stopMark, trace, inbound>>

\* The deferred value returned by the wrapped function settles.
CallbackSettle ==
    /\ variant = "callback"
    /\ started /\ isPromiseLike(dispose)
    /\ deferred.state = "pending"
    /\ \E k \in {"resolved", "rejected"}, v \in Values :
          deferred' = [deferred EXCEPT !.state = k, !.d = v]
    /\ UNCHANGED <<ctorVars, canceled, cbVars, observers, subscription, source, maVars,
                   started, calls, stopMark, trace, inbound>>

\* (resolved) => { parent.send(done); canceled = true }
\* (errorData) => { parent.send(error); canceled = true }
CallbackContinuation ==
    /\ variant = "callback"
    /\ deferred.attached /\ deferred.state # "pending" /\ ~deferred.ran
    /\ deferred' = [deferred EXCEPT !.ran = TRUE]
    /\ trace' = Append(trace, IF deferred.state = "resolved"
                              THEN Send("done", deferred.d)
                              ELSE Send("error", deferred.d))
    /\ canceled' = TRUE
    /\ UNCHANGED <<ctorVars, cbVars, observers, subscription, source, maVars, started,
                   calls, stopMark, inbound>>

\* canceled = true; if (isFunction(dispose)) dispose()
CallbackStop_ClearsReceivers ==
    /\ variant = "callback"
    /\ NoteStop
    /\ canceled' = TRUE
    /\ receivers' = <<>>
    /\ trace' = IF isFunction(dispose)
                THEN Append(trace, Entry("disposer", "call", 0, 0)) ELSE trace
    /\ UNCHANGED <<ctorVars, dispose, observers, subscription, deferred, source, maVars,
                   started, inbound>>

CallbackStop ==
    /\ variant = "callback"
    /\ NoteStop
    /\ canceled' = TRUE
    /\ trace' = IF isFunction(dispose)
                THEN Append(trace, Entry("disposer", "call", 0, 0)) ELSE trace
    /\ UNCHANGED <<ctorVars, cbVars, observers, subscription, deferred, source, maVars,
                   started, inbound>>

\* ------------------------------------------------------------ Observable behavior
\* subscription = observable.subscribe(onValue, onError, onComplete)
ObservableStart ==
    /\ variant = "observable"
    /\ ~started
    /\ started' = TRUE
    /\ subscription' = "open"
    /\ UNCHANGED <<ctorVars, canceled, cbVars, observers, deferred, source, maVars, calls,
                   stopMark, trace, inbound>>

\* subscription && subscription.unsubscribe()
ObservableStop_UnsubscribesAll ==
    /\ variant = "observable"
    /\ NoteStop
    /\ subscription' = IF subscription = "undefined" THEN subscription ELSE "closed"
    /\ source' = [source EXCEPT !.direct.status = IF @ = "open" THEN "closed" ELSE @]
    /\ UNCHANGED <<ctorVars, canceled, cbVars, observers, deferred, maVars,
                   started, trace, inbound>>

ObservableStop_NoUnsubscribe ==
    /\ variant = "observable"
    /\ NoteStop
    /\ UNCHANGED <<ctorVars, canceled, cbVars, observers, subscription, deferred, source,
                   maVars, started, trace, inbound>>

ObservableStop ==
    /\ variant = "observable"
    /\ NoteStop
    /\ subscription' = IF subscription = "undefined" THEN subscription ELSE "closed"
    /\ UNCHANGED <<ctorVars, canceled, cbVars, observers, deferred, source, maVars,
                   started, trace, inbound>>

\* receive: () => behavior
ObservableReceive ==
    /\ variant = "observable"
    /\ UNCHANGED vars

\* The source pushes its next value, or its end, into the forwarding subscription,
\* which it does only while that subscription is open.
ObservableEmit ==
    /\ variant = "observable"
    /\ subscription = "open"
    /\ ~source.ended
    /\ IF source.pos < source.len
       THEN /\ source' = [source EXCEPT !.pos = @ + 1]
            /\ trace' = Append(trace, Send("event", source.pos + 1))
       ELSE /\ source.end # "never"
            /\ source' = [source EXCEPT !.ended = TRUE]
            /\ trace' = Append(trace, IF source.end = "complete"
                                      THEN Send("done", 0) ELSE Send("error", 0))
    /\ UNCHANGED <<ctorVars, canceled, cbVars, observers, subscription, deferred, maVars,
                   started, calls, stopMark, inbound>>

\* subscribe: (observer) => observable.subscribe(observer)
ObservableSubscribe ==
    /\ variant = "observable"
    /\ source.direct.status = "none"
    /\ \E o \in ObserverIds :
          source' = [source EXCEPT !.direct.status = "open", !.direct.id = o]
    /\ UNCHANGED <<ctorVars, canceled, cbVars, observers, subscription, deferred, maVars,
                   started, calls, stopMark, trace, inbound>>

\* The handle subscribe returned: unsubscribe()
ObservableUnsubscribe ==
    /\ variant = "observable"
    /\ source.direct.status = "open"
    /\ source' = [source EXCEPT !.direct.status = "closed"]
    /\ UNCHANGED <<ctorVars, canceled, cbVars, observers, subscription, deferred, maVars,
                   started, calls, stopMark, trace, inbound>>

\* The source pushes its next value, or its end, into the direct subscription,
\* which it does only while that subscription is open.
ObservableEmitDirect ==
    /\ variant = "observable"
    /\ source.direct.status = "open"
    /\ ~source.direct.ended
    /\ IF source.direct.pos < source.len
       THEN /\ source' = [source EXCEPT !.direct.pos = @ + 1]
            /\ trace' = Append(trace, Entry("observer", "next", source.direct.id,
                                            source.direct.pos + 1))
       ELSE /\ source.end # "never"
            /\ source' = [source EXCEPT !.direct.ended = TRUE]
            /\ trace' = Append(trace, Entry("observer", source.end, source.direct.id, 0))
    /\ UNCHANGED <<ctorVars, canceled, cbVars, observers, subscription, deferred, maVars,
                   started, calls, stopMark, inbound>>

\* ------------------------------------------------------------ nested interpreter
\* interpret(machine, { ...options, parent, id })
interpret == [NoService EXCEPT !.status = "notStarted"]

\* The interpreter enters state s: every listener is told, and if s is the final
\* state the completion handlers are called and the interpreter stops itself.
interpEnter(svc, m, s) ==
    LET told == [i \in 1..Len(svc.listeners) |->
                    Entry("listener", "state", svc.listeners[i], s)]
    IN IF s = m
       THEN [svc |-> [svc EXCEPT !.status = "stopped", !.state = s,
                                 !.listeners = <<>>, !.onDone = FALSE],
             fired |-> told \o (IF svc.onDone
                                THEN <<Entry("listener", "done", 0, s)>> ELSE <<>>)]
       ELSE [svc |-> [svc EXCEPT !.status = "running", !.state = s], fired |-> told]

interpStart(svc, m) == interpEnter(svc, m, 0)

interpSend(svc, m) ==
    IF svc.status = "running" THEN interpEnter(svc, m, svc.state + 1)
    ELSE [svc |-> svc, fired |-> <<>>]

interpStop(svc) == [svc EXCEPT !.status = "stopped", !.listeners = <<>>, !.onDone = FALSE]

\* service.subscribe(listener)
interpSubscribe(svc, l) == [svc EXCEPT !.listeners = Append(@, l)]

\* The handle service.subscribe returned for listener l: unsubscribe()
interpUnsubscribe(svc, l) == [svc EXCEPT !.listeners = SelectSeq(@, LAMBDA x : x # l)]

\* ------------------------------------------------------------ Machine behavior
\* The listener of the sync subscription is listener 0 of the interpreter.
\* service.onDone((doneEvent) => parent.send(toSCXMLEvent(doneEvent, ...)))
onDoneHook(doneEvent) == Send("done", doneEvent.d)
\* (state) => parent.send(toSCXMLEvent({ type: actionTypes.update, state }, ...))
syncListener(fired) == Send("update", fired.d)

\* What the listeners the interpreter called do: the completion handler and the
\* sync listener send to the parent, an observer's next is the observer's own.
Relay(fired) ==
    [i \in 1..Len(fired) |->
        IF fired[i].k = "done" THEN onDoneHook(fired[i])
        ELSE IF fired[i].id = 0 THEN syncListener(fired[i])
        ELSE Entry("observer", "next", fired[i].id, fired[i].d)]

\* if (options?.sync)
syncOption_Always(opts) == TRUE

syncOption(opts) == opts.sync

\* service.onDone(...); if (options?.sync) subscription = service.subscribe(...);
\* service.start()
MachineStart_StartFirst ==
    /\ variant = "machine"
    /\ ~started
    /\ started' = TRUE
    /\ LET run == interpStart(interpret, machine)
           hooked == [run.svc EXCEPT !.onDone = TRUE]
           synced == IF syncOption(options)
                     THEN [hooked EXCEPT !.listeners = Append(@, 0)] ELSE hooked
       IN /\ service' = synced
          /\ trace' = trace \o Relay(run.fired)
    /\ subscription' = IF syncOption(options) THEN "open" ELSE subscription
    /\ UNCHANGED <<ctorVars, canceled, cbVars, observers, deferred, source, machine,
                   calls, stopMark, inbound>>

MachineStart ==
    /\ variant = "machine"
    /\ ~started
    /\ started' = TRUE
    /\ LET hooked == [interpret EXCEPT !.onDone = TRUE]
           synced == IF syncOption(options)
                     THEN [hooked EXCEPT !.listeners = Append(@, 0)] ELSE hooked
           run == interpStart(synced, machine)
       IN /\ service' = run.svc
          /\ trace' = trace \o Relay(run.fired)
    /\ subscription' = IF syncOption(options) THEN "open" ELSE subscription
    /\ UNCHANGED <<ctorVars, canceled, cbVars, observers, deferred, source, machine,
                   calls, stopMark, inbound>>

\* service.stop(); subscription && subscription.unsubscribe()
MachineStop_NoStop ==
    /\ variant = "machine"
    /\ NoteStop
    /\ IF service.status = "undefined"
       THEN /\ trace' = Append(trace, Throw)
            /\ UNCHANGED <<service, subscription>>
       ELSE UNCHANGED <<service, subscription, trace>>
    /\ UNCHANGED <<ctorVars, canceled, cbVars, observers, deferred, source, machine,
                   started, inbound>>

MachineStop ==
    /\ variant = "machine"
    /\ NoteStop
    /\ IF service.status = "undefined"
       THEN /\ trace' = Append(trace, Throw)
            /\ UNCHANGED <<service, subscription>>
       ELSE /\ service' = IF subscription = "undefined"
                          THEN interpStop(service)
                          ELSE interpUnsubscribe(interpStop(service), 0)
            /\ subscription' = IF subscription = "undefined" THEN subscription ELSE "closed"
            /\ trace' = trace
    /\ UNCHANGED <<ctorVars, canceled, cbVars, observers, deferred, source, machine,
                   started, inbound>>

\* service.send(event)
MachineReceive ==
    /\ variant = "machine"
    /\ calls.receive < MaxReceives
    /\ calls' = [calls EXCEPT !.receive = @ + 1]
    /\ \E event \in Events :
          IF service.status = "undefined"
          THEN /\ trace' = Append(trace, Throw)
               /\ UNCHANGED <<service, inbound>>
          ELSE LET run == interpSend(service, machine)
               IN /\ service' = run.svc
                  /\ trace' = trace \o Relay(run.fired)
                  /\ inbound' = IF service.status = "running"
                                THEN Append(inbound, Entry("interp", "event", 0, event))
                                ELSE inbound
    /\ UNCHANGED <<ctorVars, canceled, cbVars, observers, subscription, deferred, source,
                   machine, started, stopMark>>

\* subscribe: (observer) => service?.subscribe(observer)
MachineSubscribe_Eager ==
    /\ variant = "machine"
    /\ \E o \in ObserverIds :
          /\ o \notin calls.early /\ o \notin Range(service.listeners)
          /\ service' = interpSubscribe(service, o)
          /\ calls' = IF service.status = "undefined"
                      THEN [calls EXCEPT !.early = @ \cup {o}] ELSE calls
    /\ UNCHANGED <<ctorVars, canceled, cbVars, observers, subscription, deferred, source,
                   machine, started, stopMark, trace, inbound>>

MachineSubscribe ==
    /\ variant = "machine"
    /\ \E o \in ObserverIds :
          /\ o \notin calls.early /\ o \notin Range(service.listeners)
          /\ IF service.status = "undefined"
             THEN /\ calls' = [calls EXCEPT !.early = @ \cup {o}]
                  /\ service' = service
             ELSE /\ calls' = calls
                  /\ service' = interpSubscribe(service, o)
    /\ UNCHANGED <<ctorVars, canceled, cbVars, observers, subscription, deferred, source,
                   machine, started, stopMark, trace, inbound>>

\* ------------------------------------------------------------ Service behavior
\* service.send(toSCXMLEvent(event, { origin: actorContext.self }))
ServiceReceive ==
    /\ variant = "service"
    /\ calls.receive < MaxReceives
    /\ calls' = [calls EXCEPT !.receive = @ + 1]
    /\ \E event \in Events :
          inbound' = inbound \o <<Entry("self", "receive", 0, event),
                                  Entry("service", "event", 0, toSCXMLEvent(event))>>
    /\ UNCHANGED <<ctorVars, canceled, cbVars, observers, subscription, deferred, source,
                   maVars, started, stopMark, trace>>

\* receiveSignal: () => behavior
ServiceStart ==
    /\ variant = "service"
    /\ ~started
    /\ started' = TRUE
    /\ UNCHANGED <<ctorVars, canceled, cbVars, observers, subscription, deferred, source,
                   maVars, calls, stopMark, trace, inbound>>

ServiceStop_StopsInterpreter ==
    /\ variant = "service"
    /\ NoteStop
    /\ service' = interpStop(service)
    /\ UNCHANGED <<ctorVars, canceled, cbVars, observers, subscription, deferred, source,
                   machine, started, trace, inbound>>

ServiceStop ==
    /\ variant = "service"
    /\ NoteStop
    /\ UNCHANGED <<ctorVars, canceled, cbVars, observers, subscription, deferred, source,
                   maVars, started, trace, inbound>>

\* subscribe: (observer) => service.subscribe(observer)
ServiceSubscribe ==
    /\ variant = "service"
    /\ \E o \in ObserverIds :
          /\ o \notin Range(service.listeners)
          /\ service' = interpSubscribe(service, o)
    /\ UNCHANGED <<ctorVars, canceled, cbVars, observers, subscription, deferred, source,
                   machine, started, calls, stopMark, trace, inbound>>

NextPromise ==
    \/ CreateBehaviorFrom
    \/ PromiseStart
    \/ PromiseStop
    \/ PromiseReceive
    \/ PromiseSubscribe
    \/ PromiseUnsubscribe
    \/ PromiseSettle
    \/ PromiseContinuation

NextCallback ==
    \/ CreateBehaviorFrom
    \/ CallbackStart
    \/ CallbackStop
    \/ CallbackReceive
    \/ CallbackSender
    \/ CallbackRegister
    \/ CallbackSettle
    \/ CallbackContinuation

NextObservable ==
    \/ CreateBehaviorFrom
    \/ ObservableStart
    \/ ObservableStop
    \/ ObservableReceive
    \/ ObservableEmit
    \/ ObservableSubscribe
    \/ ObservableUnsubscribe
    \/ ObservableEmitDirect

NextMachine ==
    \/ CreateBehaviorFrom
    \/ CreateMachineBehavior
    \/ MachineStart
    \/ MachineStop
    \/ MachineReceive
    \/ MachineSubscribe

NextService ==
    \/ CreateBehaviorFrom
    \/ CreateServiceBehavior
    \/ ServiceStart
    \/ ServiceStop
    \/ ServiceReceive
    \/ ServiceSubscribe

\* The factory and the first signal to what it built.
NextDispatch ==
    \/ CreateBehaviorFrom
    \/ PromiseStart
    \/ ObservableStart
    \/ MachineStart
    \/ CallbackStart

Next ==
    \/ CreateBehaviorFrom
    \/ CreateMachineBehavior
    \/ CreateServiceBehavior
    \/ PromiseStart
    \/ PromiseStop
    \/ PromiseReceive
    \/ PromiseSubscribe
    \/ PromiseUnsubscribe
    \/ PromiseSettle
    \/ PromiseContinuation
    \/ CallbackStart
    \/ CallbackStop
    \/ CallbackReceive
    \/ CallbackSender
    \/ CallbackRegister
    \/ CallbackSettle
    \/ CallbackContinuation
    \/ ObservableStart
    \/ ObservableStop
    \/ ObservableReceive
    \/ ObservableEmit
    \/ ObservableSubscribe
    \/ ObservableUnsubscribe
    \/ ObservableEmitDirect
    \/ MachineStart
    \/ MachineStop
    \/ MachineReceive
    \/ MachineSubscribe
    \/ ServiceStart
    \/ ServiceStop
    \/ ServiceReceive
    \/ ServiceSubscribe

Spec == Init /\ [][Next]_vars
SpecPromise == Init /\ [][NextPromise]_vars
SpecCallback == Init /\ [][NextCallback]_vars
SpecObservable == Init /\ [][NextObservable]_vars
SpecMachine == Init /\ [][NextMachine]_vars
SpecService == Init /\ [][NextService]_vars
SpecDispatch == Init /\ [][NextDispatch]_vars

\* ================================================================ claims
\* What observer o was told, in order.
ObserverLog(tr, o) == SelectSeq(tr, LAMBDA e : e.to = "observer" /\ e.id = o)
Told(cb, o, d) == <<Entry("observer", cb, o, d), Entry("observer", "complete", o, 0)>>
ContinuationRuns == ~deferred.ran /\ deferred'.ran
Behaviors == {"callback", "promise", "observable", "machine", "service"}

\* C1: Promise behavior: when receiveSignal(stop) is processed before the wrapped
\* value settles, nothing is ever sent to the parent and no observer callback is
\* ever invoked, whatever the value does later.
C1_StopSuppressesSettlement ==
    (variant = "promise" /\ stopMark.at >= 0 /\ ~stopMark.settled) => trace = <<>>

C1_Witness ==
    /\ variant = "promise" /\ started
    /\ stopMark.at >= 0 /\ ~stopMark.settled
    /\ deferred.state = "resolved" /\ deferred.ran

\* C2: Callback behavior: when the wrapped function returned a deferred value and
\* stop is processed after start and before that value settles, nothing is sent to
\* the parent after the stop.
C2_NoSendAfterStop ==
    (/\ variant = "callback" /\ isPromiseLike(dispose)
     /\ stopMark.at >= 0 /\ stopMark.started /\ ~stopMark.settled)
        => ToParent(Suffix(trace, stopMark.at)) = <<>>

\* Parts of C3: what the logs may hold (state), what handling a resolution adds (step).
C3_State ==
    (variant = "promise" /\ calls.stop = 0) =>
        /\ ~deferred.ran => trace = <<>>
        /\ (deferred.ran /\ deferred.state = "resolved")
              => ToParent(trace) = <<Send("done", deferred.d)>>
        /\ (deferred.ran /\ deferred.state = "rejected")
              => ToParent(trace) = <<Send("error", deferred.d)>>
        /\ \A o \in ObserverIds :
              ObserverLog(trace, o) \in
                  {<<>>, Told("next", o, deferred.d), Told("error", o, deferred.d)}

C3_Step ==
    (/\ variant = "promise" /\ calls.stop = 0
     /\ ContinuationRuns /\ deferred.state = "resolved")
        => \A o \in Range(observers) :
              ObserverLog(trace', o) = Told("next", o, deferred.d)

\* C3: Promise behavior, one start and no stop: the parent is sent exactly one
\* event, done with the value when it resolved and error when it rejected; no
\* observer is told anything but next-then-complete or error-then-complete, once;
\* and every observer registered when the resolution is handled is told next and
\* then complete, once each.
C3_ExactlyOnceSettlement == [](C3_State) /\ [][C3_Step]_vars

C3_Witness ==
    /\ variant = "promise" /\ calls.stop = 0
    /\ deferred.ran /\ deferred.state = "resolved"
    /\ \A o \in ObserverIds : ObserverLog(trace, o) = Told("next", o, deferred.d)

\* C4: receiveSignal(stop) on an instance of any variant that never received start
\* (nor any event) raises no failure and sends nothing to the parent.
C4_StopWithoutStartSafe ==
    (variant \in Behaviors /\ ~started /\ calls.stop > 0 /\ calls.receive = 0)
        => trace = <<>>

\* C5: Observable behavior: the parent is sent exactly the values the source has
\* pushed, in emission order, followed by one done (or error) event once the
\* source has ended after all its values; and once stop is processed after start,
\* the parent is sent nothing more.
C5_StreamRelay ==
    variant = "observable" =>
        /\ ToParent(trace) = [i \in 1..source.pos |-> Send("event", i)]
                     \o (IF source.ended
                         THEN <<Send(IF source.end = "complete" THEN "done" ELSE "error", 0)>>
                         ELSE <<>>)
        /\ source.ended => source.pos = source.len
        /\ (stopMark.at >= 0 /\ stopMark.started)
              => Len(ToParent(trace)) = Len(ToParent(SubSeq(trace, 1, stopMark.at)))

C5_Witness ==
    /\ variant = "observable"
    /\ stopMark.started /\ stopMark.at = 1
    /\ source.len >= 2 /\ source.end = "complete"
    /\ ToParent(trace) = <<Send("event", 1)>>

\* The step part of C6: what one receive call adds to the logs.
C6_Step ==
    (variant = "callback" /\ calls'.receive = calls.receive + 1) =>
        LET new == Suffix(inbound', Len(inbound))
            E == new[1].d
            payload == IF E < 0 THEN 0 - E ELSE E
        IN /\ new[1] = Entry("self", "receive", 0, E)
           /\ Len(new) = 1 + Len(receivers)
           /\ \A r \in Range(receivers) :
                 Cardinality(Positions(new, Entry("receiver", "event", r, payload))) = 1
           /\ trace' = trace

\* C6: Callback behavior: a call receive(E) delivers E's unwrapped payload (the
\* data of an envelope, E itself otherwise) exactly once to each receiver
\* registered at that moment, to nobody else, and sends nothing to the parent.
C6_FanOut == [][C6_Step]_vars

C6_Witness ==
    /\ variant = "callback"
    /\ Len(receivers) = 2
    /\ \E i \in 1..Len(inbound) :
          /\ inbound[i].k = "receive" /\ inbound[i].d < 0
          /\ Len(inbound) >= i + 2
          /\ inbound[i + 1].to = "receiver" /\ inbound[i + 2].to = "receiver"

\* C7: Machine behavior: the parent is sent exactly one done event once the nested
\* machine has reached its final state and none before; no update event when sync
\* is off; and when sync is on, one update event per state the nested interpreter
\* entered, the initial one included, each carrying that state, in order.
C7_NestedRelay ==
    (variant = "machine" /\ service.status # "undefined") =>
        LET updates == SelectEntries(trace, "parent", "update")
            dones == SelectEntries(trace, "parent", "done")
        IN /\ dones = IF service.state = machine THEN <<Send("done", machine)>> ELSE <<>>
           /\ ~options.sync => updates = <<>>
           /\ options.sync => updates = [i \in 1..(service.state + 1) |-> Send("update", i - 1)]

C7_Witness ==
    /\ variant = "machine" /\ options.sync
    /\ machine >= 1 /\ service.state = machine
    /\ Len(SelectEntries(trace, "parent", "update")) = machine + 1
    /\ Count("parent", "done") = 1

\* C8: Callback behavior: the disposer the wrapped function returned is invoked at
\* most once, however many stop signals are delivered, and never before stop.
C8_DisposerOnce ==
    variant = "callback" =>
        /\ Count("disposer", "call") <= 1
        /\ stopMark.at < 0 => Count("disposer", "call") = 0

\* Parts of C9: what the logs may hold (state), what handling a rejection adds (step).
C9_State ==
    (variant = "promise" /\ calls.stop = 0 /\ deferred.ran /\ deferred.state = "rejected") =>
        /\ trace # <<>> /\ trace[1] = Send("error", deferred.d)
        /\ Count("parent", "*") = 1
        /\ Count("observer", "next") = 0
        /\ Count("caller", "throw") = 0
        /\ \A o \in ObserverIds :
              ObserverLog(trace, o) \in {<<>>, Told("error", o, deferred.d)}

C9_Step ==
    (/\ variant = "promise" /\ calls.stop = 0
     /\ ContinuationRuns /\ deferred.state = "rejected")
        => \A o \in Range(observers) :
              ObserverLog(trace', o) = Told("error", o, deferred.d)

\* C9: Promise behavior, no stop: when the rejection is handled, the first effect is
\* the one error event with the failure reason sent to the parent; only after it
\* is every registered observer told error and then complete (never next); and no
\* failure is raised into a caller.
C9_FailurePath == [](C9_State) /\ [][C9_Step]_vars

C9_Witness ==
    /\ variant = "promise" /\ calls.stop = 0
    /\ deferred.ran /\ deferred.state = "rejected"
    /\ Len(trace) = 1 + 2 * NumObservers

\* C10: createBehaviorFrom returns the variant of the first shape test that
\* succeeds, in the order promise-like, observable, machine definition, function;
\* a candidate that passes none raises a failure and yields no behavior.
C10_DispatchPrecedence ==
    ctor = "createBehaviorFrom" =>
        /\ entity.then => variant = "promise"
        /\ (~entity.then /\ entity.subscribe) => variant = "observable"
        /\ (~entity.then /\ ~entity.subscribe /\ entity.node) => variant = "machine"
        /\ (~entity.then /\ ~entity.subscribe /\ ~entity.node /\ entity.fn)
              => variant = "callback"
        /\ (~entity.then /\ ~entity.subscribe /\ ~entity.node /\ ~entity.fn)
              => (variant \notin Behaviors /\ trace = <<Throw>> /\ ~started)

C10_Witness ==
    /\ ctor = "createBehaviorFrom"
    /\ entity.then /\ entity.subscribe
    /\ variant = "promise" /\ started

\* The step part of C11: what one call of the sender adds to the outbound log.
C11_Step ==
    (variant = "callback" /\ calls'.sender = calls.sender + 1) =>
        IF canceled
        THEN trace' = trace
        ELSE \E v \in Values : trace' = Append(trace, Send("event", v))

C12_HooksBeforeStart ==
    (variant = "machine" /\ started) =>
        LET sent == ToParent(trace)
        IN /\ options.sync => (sent # <<>> /\ sent[1] = Send("update", 0))
           /\ machine = 0 => Send("done", 0) \in Range(sent)

C12_Witness ==
    /\ variant = "machine" /\ started
    /\ options.sync /\ machine = 0
    /\ ToParent(trace) = <<Send("update", 0), Send("done", 0)>>

\* The step part of C13: what removing an observer changes, through its handle
\* outside the notification pass and from inside its own callback during it.
C13_Step ==
    variant = "promise" =>
        /\ (calls' = calls /\ deferred' = deferred /\ Len(observers') < Len(observers))
              => /\ \E o \in Range(observers) :
                       observers' = SelectSeq(observers, LAMBDA x : x # o)
                 /\ trace' = trace
        /\ (ContinuationRuns /\ ~canceled /\ deferred.state = "resolved")
              => /\ \A o \in Range(observers) :
                       ObserverLog(trace', o) = Told("next", o, deferred.d)
                 /\ observers' = SelectSeq(observers, LAMBDA x : x \in Range(observers'))
                 /\ Len(observers') = Len(observers) - calls'.inpass

\* C13: Promise behavior: unsubscribing one observer, through its handle at any
\* time or from inside its own next callback during the notification pass,
\* removes that observer only; every observer registered when the resolution is
\* handled is still told next and then complete exactly once, none skipped and
\* none told twice.
C13_RemovalIsolated == [][C13_Step]_vars

C13_Witness ==
    /\ variant = "promise" /\ calls.stop = 0
    /\ deferred.ran /\ deferred.state = "resolved"
    /\ calls.inpass = 1 /\ observers = <<NumObservers>>
    /\ \A o \in ObserverIds : ObserverLog(trace, o) = Told("next", o, deferred.d)

\* The step part of C14: what a stop that follows start does, and what any later
\* step may still send.
C14_Step ==
    variant = "machine" =>
        /\ (started /\ calls'.stop = calls.stop + 1)
              => /\ service'.status = "stopped"
                 /\ 0 \notin Range(service'.listeners)
                 /\ options.sync => subscription' = "closed"
                 /\ trace' = trace
        /\ service.status = "stopped"
              => /\ service'.status = "stopped"
                 /\ 0 \notin Range(service.listeners) => 0 \notin Range(service'.listeners)
                 /\ SelectEntries(trace', "parent", "update")
                       = SelectEntries(trace, "parent", "update")

\* C14: Machine behavior: a stop processed after start stops the nested
\* interpreter and, when sync is on, unsubscribes the state subscription; from
\* then on the interpreter stays stopped and no update event is sent to the
\* parent, whatever is received afterwards.
C14_StopEndsRelay == [][C14_Step]_vars

C14_Witness ==
    /\ variant = "machine" /\ options.sync
    /\ stopMark.at >= 0 /\ stopMark.started
    /\ machine >= 1 /\ service.state = 0
    /\ calls.receive = 1 /\ inbound = <<>>
    /\ Count("caller", "throw") = 0
    /\ SelectEntries(trace, "parent", "update") = <<Send("update", 0)>>

\* The step part of C15: deliveries happen inside a receive call only, of that
\* call's event, to the receivers registered at that moment.
C15_Step ==
    variant = "callback" =>
        /\ calls'.receive = calls.receive => inbound' = inbound
        /\ calls'.receive = calls.receive + 1
              => LET new == Suffix(inbound', Len(inbound))
                 IN /\ receivers = <<>> => Len(new) = 1
                    /\ \A i \in 2..Len(new) :
                          /\ new[i].to = "receiver"
                          /\ new[i].id \in Range(receivers)
                          /\ new[i].d \in {new[1].d, 0 - new[1].d}
                    /\ <<canceled, receivers, dispose, deferred>>'
                          = <<canceled, receivers, dispose, deferred>>

C16_Step ==
    variant = "service" =>
        /\ <<subscription, canceled, observers, receivers, trace>>'
              = <<subscription, canceled, observers, receivers, trace>>
        /\ (started' # started \/ calls' # calls) => service' = service
        /\ calls'.receive = calls.receive => inbound' = inbound
        /\ calls'.receive = calls.receive + 1
              => LET new == Suffix(inbound', Len(inbound))
                     E == new[1].d
                 IN /\ SubSeq(inbound', 1, Len(inbound)) = inbound
                    /\ Len(new) = 2
                    /\ new[1] = Entry("self", "receive", 0, E)
                    /\ new[2] = Entry("service", "event", 0, IF E < 0 THEN E ELSE 0 - E)

C17_State ==
    variant = "observable" =>
        /\ \A o \in ObserverIds :
              ObserverLog(trace, o) =
                  IF source.direct.status # "none" /\ source.direct.id = o
                  THEN [i \in 1..source.direct.pos |-> Entry("observer", "next", o, i)]
                         \o (IF source.direct.ended
                             THEN <<Entry("observer", source.end, o, 0)>> ELSE <<>>)
                  ELSE <<>>
        /\ (stopMark.at >= 0 /\ stopMark.started)
              => ToParent(Suffix(trace, stopMark.at)) = <<>>

C17_Step ==
    (variant = "observable" /\ calls'.stop = calls.stop + 1) =>
        /\ source'.direct = source.direct
        /\ trace' = trace
        /\ subscription' = IF subscription = "undefined" THEN subscription ELSE "closed"

\* C17: Observable behavior: receiveSignal(stop) unsubscribes the forwarding
\* subscription made at start and nothing else; a subscription made through
\* subscribe(observer) is left as it is, its observer is handed every value the
\* source pushes to it before and after the stop, and after a stop that follows
\* start the parent is sent nothing.
C17_StopKeepsDirect == [](C17_State) /\ [][C17_Step]_vars

C17_Witness ==
    /\ variant = "observable"
    /\ stopMark.started /\ stopMark.at = 1
    /\ source.direct.status = "open" /\ source.direct.pos = 2
    /\ trace[1] = Send("event", 1)
    /\ Len(trace) = 3 /\ trace[2].to = "observer" /\ trace[3].to = "observer"

\* C18 as stated: Promise behavior: an observer that subscribes after the wrapped
\* value has already settled, or after receiveSignal(stop), is never notified.
C18_NoNotifyAfterSettled ==
    variant = "promise" => \A o \in calls.late : ObserverLog(trace, o) = <<>>

\* C18: Promise behavior, corrected: once the settlement has been handled (the
\* continuation attached by start has run) or a stop was processed, no observer
\* is told anything any more, so an observer that subscribes from then on is
\* never notified; the set is not replayed to.
C18_NoReplay ==
    [][(variant = "promise" /\ (deferred.ran \/ calls.stop > 0)) =>
          \A o \in ObserverIds : ObserverLog(trace', o) = ObserverLog(trace, o)]_vars

C18_Witness ==
    /\ variant = "promise" /\ calls.stop = 0
    /\ deferred.ran /\ trace # <<>>
    /\ \E o \in Range(observers) : o \in calls.late /\ ObserverLog(trace, o) = <<>>

\* The step part of C19: how the receiver set may change, what a stop leaves
\* alone, and what a receive call made on a canceled instance still delivers.
C19_Step ==
    variant = "callback" =>
        /\ Len(receivers) <= Len(receivers')
        /\ SubSeq(receivers', 1, Len(receivers)) = receivers
        /\ calls'.stop = calls.stop + 1
              => (canceled' /\ receivers' = receivers /\ inbound' = inbound)
        /\ (canceled /\ calls'.receive = calls.receive + 1)
              => LET new == Suffix(inbound', Len(inbound))
                 IN \A r \in Range(receivers) :
                       Cardinality({i \in 2..Len(new) :
                                      new[i].to = "receiver" /\ new[i].id = r}) = 1

\* C19: Callback behavior: the receiver set only grows, receiveSignal(stop)
\* leaves it as it is, and a receive call made after the instance was canceled
\* (by stop, or by the handling of the returned deferred value's settlement) is
\* still delivered once to every registered receiver.
C19_StopKeepsReceivers == [][C19_Step]_vars

C19_Witness ==
    /\ variant = "callback" /\ canceled
    /\ stopMark.at >= 0 /\ ~stopMark.started
    /\ Len(receivers) = NumReceivers
    /\ Len(inbound) = 1 + NumReceivers

\* Parts of C20: where an observer that subscribed before start stands (state),
\* and what a subscribe call made after start does (step).
C20_State ==
    variant = "machine" =>
        \A o \in calls.early :
            /\ o \notin Range(service.listeners)
            /\ ObserverLog(trace, o) = <<>>

C20_Step ==
    (/\ variant = "machine" /\ started /\ started'
     /\ Len(service'.listeners) > Len(service.listeners))
        => /\ \E o \in ObserverIds \ calls.early :
                 service' = [service EXCEPT !.listeners = Append(@, o)]
           /\ trace' = trace

\* C20: Machine behavior: subscribe(observer) called before start registers the
\* observer nowhere, so it is told no state, not even after the nested
\* interpreter is started later; subscribe called after start registers the
\* observer with the nested interpreter that start created.
C20_SubscribeNeedsStart == [](C20_State) /\ [][C20_Step]_vars

C20_Witness ==
    /\ variant = "machine" /\ started /\ service.state >= 1
    /\ \E o \in calls.early, p \in ObserverIds \ calls.early :
          /\ ObserverLog(trace, o) = <<>>
          /\ ObserverLog(trace, p) = <<Entry("observer", "next", p, 1)>>

====
